---- MODULE Spec2Model ----
(***************************************************************************)
(* Model of fa.py: the Streamlit page that takes a ticker, reads the info  *)
(* record and six financial tables from yfinance, builds Key_Statistics,   *)
(* writes the non-empty tables into an in-memory workbook and offers it    *)
(* for download.                                                           *)
(*                                                                         *)
(* TLA+ strings are ASCII only: the sheet-name suffixes "(annual)" and     *)
(* "(quarterly)" stand for the Korean suffixes of fa.py lines 42-55, and   *)
(* the metric labels of lines 62-71 are written without their Korean part. *)
(*                                                                         *)
(* The st.cache_data wrapper (line 17) is library code and is not          *)
(* modelled: every request runs the function body.                         *)
(***************************************************************************)
EXTENDS Integers, Sequences, FiniteSets, TLC

VARIABLES
    pc,              \* position of the script run
    ticker_input,    \* line 115-119: the upper-cased text input
    stock,           \* line 24: the yf.Ticker object; its cached info record
    info_read,       \* what the provider answered to line 26's stock.info
    source,          \* what the provider answered for each of the six tables
    calls,           \* log of provider reads, in program order
    financial_data,  \* line 32: the insertion-ordered dict, as a sequence
    cursor,          \* line 83: position of the write loop in financial_data
    output,          \* line 78: sheets written to the buffer so far
    is_data_present, \* line 79
    sharesIndex,     \* whether this pandas build lets df.T share df.columns
    writeRaised,     \* the ExcelWriter block raised (line 99)
    result,          \* what fetch_and_create_excel handed to line 126
    ui               \* what the page shows after the run (lines 128-141)

vars == <<pc, ticker_input, stock, info_read, source, calls, financial_data,
          cursor, output, is_data_present, sharesIndex, writeRaised, result, ui>>

(***************************************************************************)
(* Bounds of the model: the size of a populated financial table.           *)
(***************************************************************************)
MaxRows == 1
MaxCols == 2

NTables == 6

\* the name of an unnamed axis
NoName == "None"

ItemLabels == <<"TotalRevenue", "NetIncome", "DilutedEPS", "EBIT">>
PeriodLabels == <<"2024-12-31", "2023-12-31", "2022-12-31", "2021-12-31">>

(***************************************************************************)
(* pandas DataFrames: index (row labels), columns, values by row, and the  *)
(* names of the two axes.                                                  *)
(***************************************************************************)
MkTable(r, c) ==
    [index        |-> SubSeq(ItemLabels, 1, r),
     columns      |-> SubSeq(PeriodLabels, 1, c),
     values       |-> [i \in 1..r |-> [j \in 1..c |-> 10 * i + j]],
     index_name   |-> NoName,
     columns_name |-> NoName]

EmptyFrame == MkTable(0, 0)

\* an emptiness test that looks at the rows alone
empty_rows_only(df) == Len(df.index) = 0

\* DataFrame.empty: true when any axis has length 0
empty(df) == Len(df.index) = 0 \/ Len(df.columns) = 0

\* DataFrame.T
T(df) ==
    [index        |-> df.columns,
     columns      |-> df.index,
     values       |-> [j \in 1..Len(df.columns) |->
                          [i \in 1..Len(df.index) |-> df.values[i][j]]],
     index_name   |-> df.columns_name,
     columns_name |-> df.index_name]

(***************************************************************************)
(* The provider (yfinance).  A table read yields a frame, yields None, or  *)
(* raises; the frames are the fully empty one, one with line items but no  *)
(* period, one with periods but no line item, and a populated one.         *)
(***************************************************************************)
TableShapes == {<<0, 0>>, <<MaxRows, 0>>, <<0, MaxCols>>, <<MaxRows, MaxCols>>}

TableOutcomes ==
    {[kind |-> "frame", df |-> MkTable(s[1], s[2])] : s \in TableShapes}
        \cup {[kind |-> "raise", df |-> EmptyFrame],
              [kind |-> "none", df |-> EmptyFrame]}

NotFetched == [kind |-> "notfetched", df |-> EmptyFrame]

\* lines 41-55: the provider attribute read for the k-th table
TableAttr(k) ==
    <<"financials", "balance_sheet", "cashflow", "quarterly_financials",
      "quarterly_balance_sheet", "quarterly_cashflow">>[k]

\* the keys with those of the third and fourth table exchanged
SheetNameSwapped(k) ==
    <<"Income_Statement (annual)", "Balance_Sheet (annual)",
      "Income_Statement (quarterly)", "Cash_Flow (annual)",
      "Balance_Sheet (quarterly)", "Cash_Flow (quarterly)">>[k]

\* lines 42-55: the key under which the k-th table is stored
SheetName(k) ==
    <<"Income_Statement (annual)", "Balance_Sheet (annual)",
      "Cash_Flow (annual)", "Income_Statement (quarterly)",
      "Balance_Sheet (quarterly)", "Cash_Flow (quarterly)">>[k]

(***************************************************************************)
(* The info record: a dict, as a sequence of <<key, value>> pairs in       *)
(* insertion order.                                                        *)
(***************************************************************************)
\* the keys of the provider's info record, in the provider's order
InfoKeys ==
    <<"symbol", "longName", "marketCap", "trailingPE", "priceToBook",
      "returnOnEquity", "fiveYearAvgProfitGrowth", "dividendYield", "beta",
      "forwardPE", "sharesOutstanding">>

\* the provider's value for a key
ProviderValue(key) == <<"value of", key>>

\* Python's None and the 'N/A' literal of line 62, as cell values
PyNone == <<"None">>
NA == <<"N/A">>

\* dict.get(key, default)
InfoGet(info, key, default) ==
    IF \E i \in 1..Len(info) : info[i][1] = key
    THEN info[CHOOSE i \in 1..Len(info) : info[i][1] = key][2]
    ELSE default

\* lines 61-72 with the trailingPE and forwardPE keys exchanged
key_stats_raw_swapped(info) ==
    <<<<"Full Name", InfoGet(info, "longName", NA)>>,
      <<"Market Cap", InfoGet(info, "marketCap", PyNone)>>,
      <<"Trailing P/E (PER)", InfoGet(info, "forwardPE", PyNone)>>,
      <<"Price/Book (PBR)", InfoGet(info, "priceToBook", PyNone)>>,
      <<"Return On Equity (ROE)", InfoGet(info, "returnOnEquity", PyNone)>>,
      <<"5Y EPS Growth", InfoGet(info, "fiveYearAvgProfitGrowth", PyNone)>>,
      <<"Dividend Yield", InfoGet(info, "dividendYield", PyNone)>>,
      <<"Beta", InfoGet(info, "beta", PyNone)>>,
      <<"Forward P/E", InfoGet(info, "trailingPE", PyNone)>>,
      <<"Shares Outstanding", InfoGet(info, "sharesOutstanding", PyNone)>>>>

\* lines 61-72: the dict literal, in the order it lists its entries
key_stats_raw(info) ==
    <<<<"Full Name", InfoGet(info, "longName", NA)>>,
      <<"Market Cap", InfoGet(info, "marketCap", PyNone)>>,
      <<"Trailing P/E (PER)", InfoGet(info, "trailingPE", PyNone)>>,
      <<"Price/Book (PBR)", InfoGet(info, "priceToBook", PyNone)>>,
      <<"Return On Equity (ROE)", InfoGet(info, "returnOnEquity", PyNone)>>,
      <<"5Y EPS Growth", InfoGet(info, "fiveYearAvgProfitGrowth", PyNone)>>,
      <<"Dividend Yield", InfoGet(info, "dividendYield", PyNone)>>,
      <<"Beta", InfoGet(info, "beta", PyNone)>>,
      <<"Forward P/E", InfoGet(info, "forwardPE", PyNone)>>,
      <<"Shares Outstanding", InfoGet(info, "sharesOutstanding", PyNone)>>>>

\* lines 74-75: DataFrame.from_dict(orient='index', columns=['Value'])
stats_df(raw) ==
    [index        |-> [n \in 1..Len(raw) |-> raw[n][1]],
     columns      |-> <<"Value">>,
     values       |-> [n \in 1..Len(raw) |-> <<raw[n][2]>>],
     index_name   |-> "Metric",
     columns_name |-> NoName]

RECURSIVE SelectKeys(_, _)
\* the pairs of the provider's record for the keys of `keys`, in that order
SelectKeys(keys, present) ==
    IF keys = <<>> THEN <<>>
    ELSE (IF Head(keys) \in present
          THEN <<(<<Head(keys), ProviderValue(Head(keys))>>)>>
          ELSE <<>>) \o SelectKeys(Tail(keys), present)

Reverse(s) == [i \in 1..Len(s) |-> s[Len(s) + 1 - i]]

Range(s) == {s[i] : i \in 1..Len(s)}

\* info records the main specification draws from
InfoSamples ==
    {<<>>,
     SelectKeys(InfoKeys, Range(InfoKeys)),
     SelectKeys(Reverse(InfoKeys), Range(InfoKeys) \ {"trailingPE", "longName"})}

\* info records the statistics specification draws from: every subset of
\* the ten keys read by lines 62-71, in the provider's order and reversed
StatInfos ==
    {SelectKeys(order, present \cup {"symbol"}) :
        order \in {InfoKeys, Reverse(InfoKeys)},
        present \in SUBSET (Range(InfoKeys) \ {"symbol"})}

Unread == [kind |-> "unread", info |-> <<>>]

InfoOutcomes ==
    {[kind |-> "ok", info |-> r] : r \in InfoSamples}
        \cup {[kind |-> "raise", info |-> <<>>]}

\* an info check without the `if not stock.info` test
InfoRejectedRaiseOnly(o) == o.kind = "raise"

\* lines 23-29: `not stock.info`, or the provider raising inside the try
InfoRejected(o) == o.kind = "raise" \/ Len(o.info) = 0

(***************************************************************************)
(* Results of fetch_and_create_excel as line 126 sees them.                *)
(***************************************************************************)
Pending == [kind |-> "pending", sheets |-> <<>>]
None == [kind |-> "none", sheets |-> <<>>]
Buffer(sheets) == [kind |-> "buffer", sheets |-> sheets]
\* an exception that leaves the function (no try block around lines 41-76)
Propagated == [kind |-> "exception", sheets |-> <<>>]

\* an except branch that hands back what was written so far
WriteErrorResultPartial(out) == Buffer(out)

\* lines 99-102: the except branch of the writer block
WriteErrorResult(out) == None

\* lines 104-108
ReturnValue(present, out) == IF ~present THEN None ELSE Buffer(out)

\* line 94: df.T.index.name = "Date" names the index of a temporary
\* transpose.  The name reaches df (and so line 95's second df.T) only when
\* the transpose shares its Index object with df.columns.
NameTransposedIndex(df, name, shared) ==
    IF shared THEN [df EXCEPT !.columns_name = name] ELSE df

\* lines 88-95: the frame handed to to_excel for one entry
SheetFrame(sheet_name, df, shared) ==
    IF sheet_name = "Key_Statistics"
    THEN df
    ELSE T(NameTransposedIndex(df, "Date", shared))

(***************************************************************************)
(* The page: text input, upper(), the file name.                           *)
(***************************************************************************)
RawInputs == {<<>>, <<"t", "s", "l", "a">>, <<"Z", "Z">>}

UpperChar(ch) ==
    CASE ch = "t" -> "T" [] ch = "s" -> "S" [] ch = "l" -> "L"
      [] ch = "a" -> "A" [] OTHER -> ch

\* str.upper()
upper(s) == [i \in 1..Len(s) |-> UpperChar(s[i])]

Dates == {[y |-> 2026, m |-> 1, d |-> 5], [y |-> 2025, m |-> 11, d |-> 30]}

DigitChar(n) == <<"0", "1", "2", "3", "4", "5", "6", "7", "8", "9">>[n + 1]

\* strftime("%Y%m%d")
strftime(t) ==
    <<DigitChar(t.y \div 1000), DigitChar((t.y \div 100) % 10),
      DigitChar((t.y \div 10) % 10), DigitChar(t.y % 10),
      DigitChar(t.m \div 10), DigitChar(t.m % 10),
      DigitChar(t.d \div 10), DigitChar(t.d % 10)>>

\* line 130
download_filename(ticker, t) ==
    ticker \o <<"_Financials_Stats_">> \o strftime(t) \o <<".xlsx">>

NoUi == [kind |-> "none", ticker |-> <<>>, file_name |-> <<>>, data |-> <<>>]

(***************************************************************************)
(* Initial state: the page is rendered and waits for a ticker.             *)
(***************************************************************************)
FreshRun ==
    /\ stock = [info |-> <<>>]
    /\ info_read = Unread
    /\ source = [k \in 1..NTables |-> NotFetched]
    /\ calls = <<>>
    /\ financial_data = <<>>
    /\ cursor = 0
    /\ output = <<>>
    /\ is_data_present = FALSE
    /\ writeRaised = FALSE
    /\ result = Pending
    /\ ui = NoUi

Init ==
    /\ pc = "idle"
    /\ ticker_input = <<>>
    /\ sharesIndex \in BOOLEAN
    /\ FreshRun

\* lines 115-122: the user enters text; an empty input renders nothing more
Submit ==
    /\ pc = "idle"
    /\ \E raw \in RawInputs :
          /\ ticker_input' = upper(raw)
          /\ pc' = IF upper(raw) = <<>> THEN "done" ELSE "info"
    /\ UNCHANGED <<stock, info_read, source, calls, financial_data, cursor, output,
                   is_data_present, sharesIndex, writeRaised, result, ui>>

\* lines 23-29
InfoCheck ==
    /\ pc = "info"
    /\ \E o \in InfoOutcomes :
          /\ calls' = Append(calls, "info")
          /\ info_read' = o
          /\ IF InfoRejected(o)
             THEN /\ result' = None
                  /\ pc' = "returned"
                  /\ UNCHANGED stock
             ELSE /\ stock' = [info |-> o.info]
                  /\ pc' = "fetch"
                  /\ UNCHANGED result
    /\ UNCHANGED <<ticker_input, source, financial_data, cursor, output,
                   is_data_present, sharesIndex, writeRaised, ui>>

\* lines 41-55: one `if not stock.<attr>.empty: financial_data[name] = ...`.
\* calls holds the info read and the table reads made so far, so the next
\* table is number Len(calls).
FetchTable ==
    /\ pc = "fetch"
    /\ LET k == Len(calls) IN
       /\ k \in 1..NTables
       /\ \E o \in TableOutcomes :
             /\ calls' = Append(calls, TableAttr(k))
             /\ source' = [source EXCEPT ![k] = o]
             /\ IF o.kind # "frame"
                THEN /\ result' = Propagated
                     /\ pc' = "returned"
                     /\ UNCHANGED financial_data
                ELSE /\ financial_data' =
                          IF ~empty(o.df)
                          THEN Append(financial_data,
                                      [name |-> SheetName(k), df |-> o.df])
                          ELSE financial_data
                     /\ pc' = IF k = NTables THEN "stats" ELSE "fetch"
                     /\ UNCHANGED result
    /\ UNCHANGED <<ticker_input, stock, info_read, cursor, output, is_data_present,
                   sharesIndex, writeRaised, ui>>

\* lines 60-76
BuildStats ==
    /\ pc = "stats"
    /\ financial_data' =
          Append(financial_data,
                 [name |-> "Key_Statistics",
                  df |-> stats_df(key_stats_raw(stock.info))])
    /\ pc' = "open"
    /\ UNCHANGED <<ticker_input, stock, info_read, source, calls, cursor, output,
                   is_data_present, sharesIndex, writeRaised, result, ui>>

\* lines 78-82: the buffer, the flag, and entering the ExcelWriter block
OpenWriter ==
    /\ pc = "open"
    /\ output' = <<>>
    /\ is_data_present' = FALSE
    /\ cursor' = 1
    /\ pc' = "write"
    /\ UNCHANGED <<ticker_input, stock, info_read, source, calls, financial_data,
                   sharesIndex, writeRaised, result, ui>>

\* lines 83-97: one iteration of the loop
WriteSheet ==
    /\ pc = "write"
    /\ cursor <= Len(financial_data)
    /\ LET sheet_name == financial_data[cursor].name
           df == financial_data[cursor].df
       IN IF ~empty(df)
          THEN /\ output' = Append(output,
                                   [name |-> sheet_name,
                                    df |-> SheetFrame(sheet_name, df,
                                                      sharesIndex)])
               /\ is_data_present' = TRUE
          ELSE UNCHANGED <<output, is_data_present>>
    /\ cursor' = cursor + 1
    /\ UNCHANGED <<pc, ticker_input, stock, info_read, source, calls, financial_data,
                   sharesIndex, writeRaised, result, ui>>

\* line 82: leaving the with block saves the workbook
CloseWriter ==
    /\ pc = "write"
    /\ cursor > Len(financial_data)
    /\ pc' = "check"
    /\ UNCHANGED <<ticker_input, stock, info_read, source, calls, financial_data, cursor,
                   output, is_data_present, sharesIndex, writeRaised, result,
                   ui>>

\* lines 99-102: the writer raises on entry, in a to_excel, or on the save
WriteError ==
    /\ pc \in {"open", "write"}
    /\ writeRaised' = TRUE
    /\ result' = WriteErrorResult(output)
    /\ pc' = "returned"
    /\ UNCHANGED <<ticker_input, stock, info_read, source, calls, financial_data, cursor,
                   output, is_data_present, sharesIndex, ui>>

\* lines 104-108
Return ==
    /\ pc = "check"
    /\ result' = ReturnValue(is_data_present, output)
    /\ pc' = "returned"
    /\ UNCHANGED <<ticker_input, stock, info_read, source, calls, financial_data, cursor,
                   output, is_data_present, sharesIndex, writeRaised, ui>>

\* lines 126-141: an exception out of line 126 skips both branches
Render ==
    /\ pc = "returned"
    /\ \E today \in Dates :
          ui' = CASE result.kind = "exception" ->
                       [kind |-> "uncaught exception", ticker |-> <<>>,
                        file_name |-> <<>>, data |-> <<>>]
                  [] result.kind = "buffer" ->
                       [kind |-> "download", ticker |-> ticker_input,
                        file_name |-> download_filename(ticker_input, today),
                        data |-> result.sheets]
                  [] OTHER ->
                       [kind |-> "error", ticker |-> ticker_input,
                        file_name |-> <<>>, data |-> <<>>]
    /\ pc' = "done"
    /\ UNCHANGED <<ticker_input, stock, info_read, source, calls, financial_data, cursor,
                   output, is_data_present, sharesIndex, writeRaised, result>>

\* the user edits the input: Streamlit runs the script again from the top
Rerun ==
    /\ pc = "done"
    /\ pc' = "idle"
    /\ ticker_input' = <<>>
    /\ stock' = [info |-> <<>>]
    /\ info_read' = Unread
    /\ source' = [k \in 1..NTables |-> NotFetched]
    /\ calls' = <<>>
    /\ financial_data' = <<>>
    /\ cursor' = 0
    /\ output' = <<>>
    /\ is_data_present' = FALSE
    /\ writeRaised' = FALSE
    /\ result' = Pending
    /\ ui' = NoUi
    /\ UNCHANGED sharesIndex

Next ==
    \/ Submit
    \/ InfoCheck
    \/ FetchTable
    \/ BuildStats
    \/ OpenWriter
    \/ WriteSheet
    \/ CloseWriter
    \/ WriteError
    \/ Return
    \/ Render
    \/ Rerun

Spec == Init /\ [][Next]_vars

(***************************************************************************)
(* The statistics extraction on its own: the info check has passed, the    *)
(* six tables came back empty, and lines 60-76 run on every info record of *)
(* StatInfos.                                                              *)
(***************************************************************************)
InitStats ==
    /\ pc = "stats"
    /\ ticker_input = upper(<<"t", "s", "l", "a">>)
    /\ sharesIndex \in BOOLEAN
    /\ \E r \in StatInfos :
          /\ stock = [info |-> r]
          /\ info_read = [kind |-> "ok", info |-> r]
    /\ source = [k \in 1..NTables |-> [kind |-> "frame", df |-> EmptyFrame]]
    /\ calls = <<"info">> \o [k \in 1..NTables |-> TableAttr(k)]
    /\ financial_data = <<>>
    /\ cursor = 0
    /\ output = <<>>
    /\ is_data_present = FALSE
    /\ writeRaised = FALSE
    /\ result = Pending
    /\ ui = NoUi

NextStats == BuildStats

SpecStats == InitStats /\ [][NextStats]_vars

(***************************************************************************)
(* What the specification document fixes, restated for the properties.     *)
(***************************************************************************)
\* section 6: the seven sheet names, in order
SpecSheetNames ==
    <<"Income_Statement (annual)", "Balance_Sheet (annual)",
      "Cash_Flow (annual)", "Income_Statement (quarterly)",
      "Balance_Sheet (quarterly)", "Cash_Flow (quarterly)", "Key_Statistics">>

\* section 6: the ten statistics rows, in order, with the info key of each
SpecMetrics ==
    <<<<"Full Name", "longName">>, <<"Market Cap", "marketCap">>,
      <<"Trailing P/E (PER)", "trailingPE">>,
      <<"Price/Book (PBR)", "priceToBook">>,
      <<"Return On Equity (ROE)", "returnOnEquity">>,
      <<"5Y EPS Growth", "fiveYearAvgProfitGrowth">>,
      <<"Dividend Yield", "dividendYield">>, <<"Beta", "beta">>,
      <<"Forward P/E", "forwardPE">>,
      <<"Shares Outstanding", "sharesOutstanding">>>>

MissingMarkers == {NA, PyNone}

Finished == pc \in {"returned", "done"}

HasSheet(sheets, name) == \E i \in 1..Len(sheets) : sheets[i].name = name

SheetOf(sheets, name) ==
    sheets[CHOOSE i \in 1..Len(sheets) : sheets[i].name = name]

\* the table a sheet name is written from: the k-th provider table, or the
\* statistics table built from the info record
SourceTable(n) ==
    IF n <= NTables
    THEN source[n]
    ELSE [kind |-> "frame", df |-> stats_df(key_stats_raw(stock.info))]

TableReads == Cardinality({i \in 1..Len(calls) : calls[i] # "info"})

InfoWasRejected ==
    \/ info_read.kind = "raise"
    \/ info_read.kind = "ok" /\ info_read.info = <<>>

AllSixEmpty ==
    \A k \in 1..NTables :
        source[k].kind = "frame" /\ Len(source[k].df.index) = 0

(***************************************************************************)
(* C1.  When the info record is non-empty and all six financial tables are *)
(* empty, fetch_and_create_excel returns None: Key_Statistics alone never  *)
(* makes the result a workbook.                                            *)
(***************************************************************************)
C1_NoDataIsFailure ==
    (Finished /\ info_read.kind = "ok" /\ info_read.info # <<>>
        /\ AllSixEmpty)
    => result = None

(***************************************************************************)
(* C2, as stated.  In every returned workbook each of the seven sheets is  *)
(* present if and only if its source table is non-null and has at least    *)
(* one row.                                                                *)
(***************************************************************************)
C2_SheetIffSourceHasRow ==
    result.kind = "buffer" =>
        \A n \in 1..Len(SpecSheetNames) :
            HasSheet(result.sheets, SpecSheetNames[n])
                <=> (/\ SourceTable(n).kind = "frame"
                     /\ Len(SourceTable(n).df.index) >= 1)

(***************************************************************************)
(* C2, amended.  In every returned workbook each of the seven sheets is    *)
(* present if and only if its source table is non-null and has at least    *)
(* one row and at least one column.                                        *)
(***************************************************************************)
C2_SheetIffSourceNonEmpty ==
    result.kind = "buffer" =>
        \A n \in 1..Len(SpecSheetNames) :
            HasSheet(result.sheets, SpecSheetNames[n])
                <=> (/\ SourceTable(n).kind = "frame"
                     /\ Len(SourceTable(n).df.index) >= 1
                     /\ Len(SourceTable(n).df.columns) >= 1)

\* quarterly cash flow has line items but no period, the other five tables
\* are populated, and the workbook holds exactly the other six sheets
C2_Witness ==
    /\ result.kind = "buffer"
    /\ Len(source[NTables].df.index) >= 1
    /\ Len(source[NTables].df.columns) = 0
    /\ \A k \in 1..(NTables - 1) :
          Len(source[k].df.index) >= 1 /\ Len(source[k].df.columns) >= 1
    /\ Len(result.sheets) = NTables
    /\ ~HasSheet(result.sheets, "Cash_Flow (quarterly)")

(***************************************************************************)
(* C3.  When the info record is empty, or the provider raises while it is  *)
(* read, the function returns None with no table read made; and on every   *)
(* run a table read is preceded by the info read.                          *)
(***************************************************************************)
C3_FastFail ==
    /\ InfoWasRejected => (Finished /\ result = None /\ TableReads = 0)
    /\ \A i \in 1..Len(calls) :
          calls[i] # "info" => \E j \in 1..(i - 1) : calls[j] = "info"
    /\ TableReads > 0 => (info_read.kind = "ok" /\ info_read.info # <<>>)

C3_Witness ==
    /\ pc = "done"
    /\ info_read.kind = "ok"
    /\ info_read.info = <<>>
    /\ calls = <<"info">>
    /\ ui.kind = "error"

(***************************************************************************)
(* C4.  When the read of one of the six tables raises, the error does not  *)
(* leave fetch_and_create_excel, the other tables are still read, and the  *)
(* failed table's sheet is simply missing from the workbook.               *)
(***************************************************************************)
C4_TableErrorAbsorbed ==
    (Finished /\ \E k \in 1..NTables : source[k].kind = "raise")
    => /\ result.kind # "exception"
       /\ \A k \in 1..NTables : source[k].kind # "notfetched"
       /\ \A k \in 1..NTables :
             (result.kind = "buffer" /\ source[k].kind = "raise")
                 => ~HasSheet(result.sheets, SpecSheetNames[k])

(***************************************************************************)
(* C5.  When the spreadsheet-writing step raises, before, between or after *)
(* the sheet writes, fetch_and_create_excel returns None and the page      *)
(* offers no file, however many sheets were written and whatever           *)
(* is_data_present holds.                                                  *)
(***************************************************************************)
C5_WriteErrorIsFailure ==
    writeRaised =>
        /\ result = None
        /\ pc = "done" => (ui.kind = "error" /\ ui.data = <<>>)

C5_Witness ==
    /\ writeRaised
    /\ is_data_present
    /\ Len(output) >= 2
    /\ Len(output) < Len(financial_data)
    /\ pc = "done"

(***************************************************************************)
(* C6.  For every non-empty ticker the run ends either with a download of  *)
(* a complete workbook named {TICKER}_Financials_Stats_{YYYYMMDD}.xlsx or  *)
(* with an error message naming the ticker and no file; every failure      *)
(* inside the pipeline (rejected ticker, no data, table read error, write  *)
(* error) ends in the error message.                                       *)
(***************************************************************************)
C6_DownloadOrError ==
    (pc = "done" /\ ticker_input # <<>>) =>
        /\ \/ /\ ui.kind = "download"
              /\ \E t \in Dates :
                    ui.file_name = ticker_input \o <<"_Financials_Stats_">>
                                       \o strftime(t) \o <<".xlsx">>
              /\ ui.data = output
              /\ Len(output) >= 1
           \/ /\ ui.kind = "error"
              /\ ui.ticker = ticker_input
              /\ ui.file_name = <<>>
        /\ (\/ InfoWasRejected
            \/ writeRaised
            \/ \E k \in 1..NTables : source[k].kind = "raise"
            \/ (TableReads = NTables /\ AllSixEmpty))
           => ui.kind = "error"

(***************************************************************************)
(* C7.  Every financial sheet written is the transpose of the table that   *)
(* was read (periods as rows, line items as columns) with its row axis     *)
(* named "Date"; Key_Statistics is written as built, not transposed.       *)
(***************************************************************************)
IsTransposeOf(sheet, df) ==
    /\ sheet.index = df.columns
    /\ sheet.columns = df.index
    /\ \A i \in 1..Len(df.index) : \A j \in 1..Len(df.columns) :
          sheet.values[j][i] = df.values[i][j]

C7_TransposedAndLabelled ==
    \A i \in 1..Len(output) :
        IF output[i].name = "Key_Statistics"
        THEN /\ output[i].df.index = [n \in 1..Len(SpecMetrics) |->
                                          SpecMetrics[n][1]]
             /\ output[i].df.columns = <<"Value">>
        ELSE \E k \in 1..NTables :
                /\ SpecSheetNames[k] = output[i].name
                /\ IsTransposeOf(output[i].df, source[k].df)
                /\ output[i].df.index_name = "Date"

\* the same without the label: the sheets are transposed in every build
C7_TransposedOnly ==
    \A i \in 1..Len(output) :
        output[i].name # "Key_Statistics" =>
            \E k \in 1..NTables :
                /\ SpecSheetNames[k] = output[i].name
                /\ IsTransposeOf(output[i].df, source[k].df)

\* the label is there in the builds where df.T shares df.columns
C7_LabelledWhenShared ==
    sharesIndex => C7_TransposedAndLabelled

(***************************************************************************)
(* C8.  For every info record, whichever of the ten keys it holds and in   *)
(* whatever order, the statistics table has exactly the ten metric rows in *)
(* the fixed order; the row of a key that is present carries the record's  *)
(* value unchanged and the row of an absent key carries a missing marker.  *)
(***************************************************************************)
StatsEntry == financial_data[Len(financial_data)]

C8_StatsTotal ==
    pc = "open" =>
        /\ StatsEntry.name = "Key_Statistics"
        /\ Len(StatsEntry.df.index) = Len(SpecMetrics)
        /\ Len(StatsEntry.df.values) = Len(SpecMetrics)
        /\ \A n \in 1..Len(SpecMetrics) :
              /\ StatsEntry.df.index[n] = SpecMetrics[n][1]
              /\ Len(StatsEntry.df.values[n]) = 1
              /\ \A i \in 1..Len(stock.info) :
                    stock.info[i][1] = SpecMetrics[n][2]
                        => StatsEntry.df.values[n][1] = stock.info[i][2]
              /\ (\A i \in 1..Len(stock.info) :
                      stock.info[i][1] # SpecMetrics[n][2])
                    => StatsEntry.df.values[n][1] \in MissingMarkers

\* trailingPE is absent from a record listed in reverse order, forwardPE is
\* present, and the Trailing P/E row is there with the marker
C8_Witness ==
    /\ pc = "open"
    /\ stock.info[1][1] = "sharesOutstanding"
    /\ \A i \in 1..Len(stock.info) : stock.info[i][1] # "trailingPE"
    /\ \E i \in 1..Len(stock.info) : stock.info[i][1] = "forwardPE"
    /\ StatsEntry.df.index[3] = "Trailing P/E (PER)"
    /\ StatsEntry.df.values[3][1] \in MissingMarkers
    /\ StatsEntry.df.values[9][1] = ProviderValue("forwardPE")

(***************************************************************************)
(* C9.  In every returned workbook the sheets follow the fixed order of    *)
(* the seven sheet names, whichever tables are omitted, and Key_Statistics *)
(* is the last sheet.                                                      *)
(***************************************************************************)
Position(name) ==
    CHOOSE n \in 1..Len(SpecSheetNames) : SpecSheetNames[n] = name

C9_SheetOrder ==
    result.kind = "buffer" =>
        /\ \A i \in 1..Len(result.sheets) :
              result.sheets[i].name \in Range(SpecSheetNames)
        /\ \A i \in 1..Len(result.sheets) : \A j \in 1..Len(result.sheets) :
              i < j => Position(result.sheets[i].name)
                           < Position(result.sheets[j].name)
        /\ result.sheets[Len(result.sheets)].name = "Key_Statistics"

\* annual balance sheet and quarterly income statement are omitted and the
\* remaining five sheets are returned
C9_Witness ==
    /\ result.kind = "buffer"
    /\ Len(result.sheets) = 5
    /\ ~HasSheet(result.sheets, "Balance_Sheet (annual)")
    /\ ~HasSheet(result.sheets, "Income_Statement (quarterly)")
    /\ HasSheet(result.sheets, "Cash_Flow (annual)")
    /\ HasSheet(result.sheets, "Balance_Sheet (quarterly)")

====
